---------------------------- MODULE Spec2Model ----------------------------
(***************************************************************************)
(* Model of packages/speex-wasm-decoder/src/c/decoder_wrapper.c:           *)
(* decode_spx_to_wav (the decode orchestration loop), write_wav_header and *)
(* free_wav_buffer.                                                        *)
(*                                                                         *)
(* The Ogg container is abstracted to "units": a page occupies PageLen     *)
(* bytes (a header byte then a body byte), a corrupt page occupies one     *)
(* junk byte.  A page carries lacing segments: "part" (the packet goes on  *)
(* in the next page), "good" (a packet ends here and speex decodes it) and *)
(* "bad" (a packet ends here and speex_decode_int fails on it).  A decoded *)
(* frame is identified by the packet it came from.                         *)
(***************************************************************************)
EXTENDS Integers, Sequences, FiniteSets, TLC

\* ------------------------------------------------------------------ bounds
MaxUnits == 3
MaxPairUnits == 3
MaxChunk == 3
HeaderSpan == 8

\* ------------------------------------------------------- program constants
WbFrameSize == 320
MaxInt32 == 2147483647
MinInt32 == -MaxInt32 - 1

PageLen == 1 + 1

SampleRates == {8000, 16000, 32000}

\* ----------------------------------------------------------- input layouts
SegKinds == {"part", "good", "bad"}
JunkUnit == [junk |-> TRUE, serialno |-> 0, segs |-> <<>>]
PageUnit(ser, s) == [junk |-> FALSE, serialno |-> ser, segs |-> s]
UnitSet ==
  {JunkUnit, PageUnit(1, <<"good">>), PageUnit(1, <<"bad">>), PageUnit(1, <<"part">>),
   PageUnit(1, <<"good", "good">>), PageUnit(2, <<"good">>)}
Layouts(n) == UNION {[1..k -> UnitSet] : k \in 0..n}

\* The bytes of unit u of a layout.
UnitBytes(lay, u) ==
  IF lay[u].junk THEN <<[t |-> "J", u |-> u]>>
  ELSE <<[t |-> "H", u |-> u], [t |-> "B", u |-> u]>>

RECURSIVE BytesFrom(_, _)
BytesFrom(lay, u) ==
  IF u > Len(lay) THEN <<>> ELSE UnitBytes(lay, u) \o BytesFrom(lay, u + 1)

BytesOf(lay) == BytesFrom(lay, 1)

\* Units before u that take a page sequence number in u's logical stream
\* (its own pages and corrupt pages).
SameStream(lay, u) ==
  {v \in 1..(u - 1) : lay[v].junk \/ lay[v].serialno = lay[u].serialno}

SetMax(S) == CHOOSE x \in S : \A y \in S : y <= x

\* The page header fields of unit u, as ogg_sync_pageout hands them out.
PageOf(lay, u) ==
  LET before == SameStream(lay, u)
      prev == IF before = {} THEN 0 ELSE SetMax(before)
  IN [u |-> u,
      serialno |-> lay[u].serialno,
      pageno |-> Cardinality(before),
      continued |-> /\ prev # 0
                    /\ ~lay[prev].junk
                    /\ lay[prev].segs[Len(lay[prev].segs)] = "part",
      segs |-> lay[u].segs]

NoPage == [u |-> 0, serialno |-> 0, pageno |-> 0, continued |-> FALSE, segs |-> <<>>]

\* ----------------------------------------------------- 32-bit arithmetic
\* A size_t (32 bits in the wasm32 build) is held as its top bit and its low
\* 31 bits, so that every value stays inside the checker's integer range.
SizeT(n) == [hi |-> 0, lo |-> n]

SizeAdd(s, n) ==
  IF s.lo > MaxInt32 - n
  THEN [hi |-> (s.hi + 1) % 2, lo |-> (s.lo - MaxInt32) + (n - 1)]
  ELSE [hi |-> s.hi, lo |-> s.lo + n]

\* Conversion of a size_t to int32_t / int (two's complement truncation).
SizeToInt32(s) == IF s.hi = 0 THEN s.lo ELSE (s.lo - MaxInt32) - 1

\* int32 addition as the wasm build computes it (i32.add wraps).
Add32(a, b) ==
  IF b >= 0 /\ a > MaxInt32 - b THEN ((a - MaxInt32) - 1) + ((b - MaxInt32) - 1)
  ELSE IF b < 0 /\ a < MinInt32 - b THEN ((a + MaxInt32) + 1) + ((b + MaxInt32) + 1)
  ELSE a + b

\* int32 multiplication by 16 (i32.mul wraps), then C division by 8.
Mul16(a) ==
  LET low == a % 134217728
      bit == (a \div 134217728) % 2
  IN IF bit = 0 THEN low * 16 ELSE ((low * 16) - MaxInt32) - 1

CDiv(a, b) == IF a >= 0 THEN a \div b ELSE -((-a) \div b)


\* ------------------------------------------------- libogg: the sync layer
\* oy = [data |-> bytes written and not yet returned, unsynced |-> BOOLEAN]
SyncInit == [data |-> <<>>, unsynced |-> FALSE]

PageComplete(d) ==
  /\ Len(d) >= PageLen
  /\ d[1].t = "H"
  /\ d[2].t = "B"
  /\ d[2].u = d[1].u

NeedMore(d) == Len(d) = 0 \/ (Len(d) < PageLen /\ d[1].t = "H")

\* The search for the next possible capture pattern after a sync failure.
RECURSIVE SkipToCapture(_)
SkipToCapture(d) ==
  IF d = <<>> \/ d[1].t = "H" THEN d ELSE SkipToCapture(Tail(d))

\* ogg_sync_pageseek: > 0 a page was returned, 0 more data is needed,
\* < 0 bytes were skipped.
ogg_sync_pageseek(d) ==
  IF NeedMore(d) THEN [ret |-> 0, data |-> d, page |-> 0]
  ELSE IF PageComplete(d)
       THEN [ret |-> PageLen, data |-> SubSeq(d, PageLen + 1, Len(d)), page |-> d[1].u]
       ELSE [ret |-> -1, data |-> SkipToCapture(Tail(d)), page |-> 0]

\* ogg_sync_pageout: 1 a page, 0 need more data, -1 out of sync (reported
\* once per loss of sync; the next call goes on searching).
RECURSIVE ogg_sync_pageout(_)
ogg_sync_pageout(s) ==
  LET r == ogg_sync_pageseek(s.data)
  IN IF r.ret > 0
       THEN [ret |-> 1, oy |-> [data |-> r.data, unsynced |-> FALSE], page |-> r.page]
     ELSE IF r.ret = 0 THEN [ret |-> 0, oy |-> s, page |-> 0]
     ELSE IF ~s.unsynced
       THEN [ret |-> -1, oy |-> [data |-> r.data, unsynced |-> TRUE], page |-> 0]
     ELSE ogg_sync_pageout([data |-> r.data, unsynced |-> TRUE])

\* ogg_sync_wrote after the memcpy of n bytes from position `from` of the input.
ogg_sync_wrote(s, input, from, n) ==
  [s EXCEPT !.data = s.data \o SubSeq(input, from + 1, from + n)]

\* ----------------------------------------------- libogg: the stream layer
\* os = [serialno, pageno (-1 before the first page), lacing (complete
\* packets and gap marks not yet returned), partial (an unfinished packet
\* is buffered)]
GapEntry == [gap |-> TRUE, id |-> <<0, 0>>, ok |-> FALSE]
PacketEntry(u, k, kind) == [gap |-> FALSE, id |-> <<u, k>>, ok |-> kind = "good"]
NoPacket == [gap |-> FALSE, id |-> <<0, 0>>, ok |-> FALSE]
NoStream == [serialno |-> 0, pageno |-> -1, lacing |-> <<>>, partial |-> FALSE]

ogg_stream_init(serialno) ==
  [serialno |-> serialno, pageno |-> -1, lacing |-> <<>>, partial |-> FALSE]

\* The segments of a continued page that belong to a packet whose start was
\* lost are skipped, up to and including the segment that ends it.
RECURSIVE SkipContinued(_)
SkipContinued(segs) ==
  IF segs = <<>> THEN <<>>
  ELSE IF segs[1] = "part" THEN SkipContinued(Tail(segs))
  ELSE Tail(segs)

\* The entries of the packets that end in segs[k..].
RECURSIVE Entries(_, _, _)
Entries(u, segs, k) ==
  IF k > Len(segs) THEN <<>>
  ELSE IF segs[k] = "part" THEN Entries(u, segs, k + 1)
  ELSE <<PacketEntry(u, k, segs[k])>> \o Entries(u, segs, k + 1)

\* ogg_stream_pagein: a page of another serial number is refused (-1); a
\* page out of sequence drops the buffered partial packet and leaves a gap
\* mark; then the page's segments are appended.
ogg_stream_pagein(s, pg) ==
  IF pg.serialno # s.serialno THEN s
  ELSE
    LET inseq == pg.pageno = s.pageno
        lac1 == IF ~inseq /\ s.pageno # -1 THEN Append(s.lacing, GapEntry) ELSE s.lacing
        part1 == inseq /\ s.partial
        skipped == Len(pg.segs) - Len(SkipContinued(pg.segs))
        first == IF pg.continued /\ ~part1 THEN skipped + 1 ELSE 1
        last == IF Len(pg.segs) >= first THEN pg.segs[Len(pg.segs)] ELSE "none"
    IN [serialno |-> s.serialno,
        pageno |-> pg.pageno + 1,
        lacing |-> lac1 \o Entries(pg.u, pg.segs, first),
        partial |-> IF last = "none" THEN part1 ELSE last = "part"]

\* ogg_stream_packetout: 1 a packet, 0 none complete, -1 a gap was passed.
ogg_stream_packetout(s) ==
  IF s.lacing = <<>> THEN [ret |-> 0, os |-> s, op |-> NoPacket]
  ELSE IF s.lacing[1].gap
       THEN [ret |-> -1, os |-> [s EXCEPT !.lacing = Tail(s.lacing)], op |-> NoPacket]
       ELSE [ret |-> 1, os |-> [s EXCEPT !.lacing = Tail(s.lacing)], op |-> s.lacing[1]]

\* ------------------------------------------------------------ libspeex
\* speex_decode_int: 0 on success, -1/-2 on a packet it cannot decode.
speex_decode_int(pkt) == IF pkt.ok THEN 0 ELSE -1


\* ------------------------------------------------------------- the state
VARIABLES
  layout,           \* the structure of the caller's file (pages and corrupt pages)
  ogg_spx_data,     \* the input bytes
  ogg_spx_size,     \* inputLength
  buffer_size,      \* the chunk size of line 90, in units of the abstract bytes
  pc,               \* position in decode_spx_to_wav / the caller
  bytes_read, bytes_to_copy,
  oy, og, os, op, stream_init,
  frame_size,
  pcm_stream,       \* the memstream: [open, len, data]
  pcm_buffer, pcm_buffer_size,
  sample_rate, wav_buffer, final_wav_size,
  wav_size, ret,    \* the out-parameter and the returned pointer
  allocs, frees,    \* per resource: allocations made, releases made
  n_ok,             \* number of speex_decode_int calls that returned 0
  yielded,          \* packets ogg_stream_packetout returned, in order
  submitted,        \* packets handed to speex_decode_int, in order
  pages_out,        \* pages ogg_sync_pageout returned, in order
  pages_in,         \* pages handed to ogg_stream_pagein, in order
  supplied,         \* input bytes reported to ogg_sync_wrote, in order
  oom_at, oom_hit,  \* the allocation site that may fail; whether it has failed
  used_failed,      \* the code went on to use the result of a failed allocation
  call_no, prev     \* the caller: number of the call, result of the call before

vars ==
  <<layout, ogg_spx_data, ogg_spx_size, buffer_size, pc, bytes_read, bytes_to_copy,
    oy, og, os, op, stream_init, frame_size, pcm_stream, pcm_buffer, pcm_buffer_size,
    sample_rate, wav_buffer, final_wav_size, wav_size, ret, allocs, frees, n_ok,
    yielded, submitted, pages_out, pages_in, supplied, oom_at, oom_hit,
    used_failed, call_no, prev>>

inputVars == <<layout, ogg_spx_data, ogg_spx_size, buffer_size>>
demuxVars == <<oy, og, os, op, stream_init>>
pcmVars == <<pcm_stream, pcm_buffer, pcm_buffer_size, n_ok>>
outVars == <<sample_rate, wav_buffer, final_wav_size, wav_size, ret>>
ghostVars == <<yielded, submitted, pages_out, pages_in, supplied>>
callerVars == <<call_no, prev>>

Resources ==
  {"decoder_state", "bits", "oy", "os", "pcm_stream", "pcm_buffer",
   "output_frame", "wav_stream", "wav_buffer"}

AllocSites == {"sync_buffer", "pcm_open", "pcm_grow", "frame", "wav_open", "wav_grow"}

Alloc(a, r) == [a EXCEPT ![r] = @ + 1]
Free(f, r) == [f EXCEPT ![r] = @ + 1]

RECURSIVE AllocAll(_, _)
AllocAll(a, rs) ==
  IF rs = <<>> THEN a ELSE AllocAll(Alloc(a, rs[1]), Tail(rs))

\* Whether the allocation at `site` may fail now: {FALSE}, or {TRUE, FALSE}.
MayFail(site) == IF oom_at = site /\ ~oom_hit THEN {TRUE, FALSE} ELSE {FALSE}

\* The outcomes of undefined behaviour: the build may trap or run on.
MayTrap(ub) == IF ub THEN {TRUE, FALSE} ELSE {FALSE}

\* ----------------------------------------------------------- the header
\* sizeof(WavHeader): the struct of lines 19-33 has no padding.
SizeofWavHeader == 4 + 4 + 4 + 4 + 4 + 2 + 2 + 4 + 4 + 2 + 2 + 4 + 4

NoHeader ==
  [chunk_id |-> "", chunk_size |-> 0, format |-> "", subchunk1_id |-> "",
   subchunk1_size |-> 0, audio_format |-> 0, num_channels |-> 0, sample_rate |-> 0,
   byte_rate |-> 0, block_align |-> 0, bits_per_sample |-> 0, subchunk2_id |-> "",
   subchunk2_size |-> 0]

HeaderChunkSize(pcm_data_size) == Add32(36, pcm_data_size)

\* write_wav_header(file, sample_rate, pcm_data_size): the header written.
write_wav_header(rate, pcm_data_size) ==
  LET num_channels == 1
      bits_per_sample == 16
  IN [chunk_id |-> "RIFF",
      format |-> "WAVE",
      subchunk1_id |-> "fmt ",
      subchunk2_id |-> "data",
      subchunk1_size |-> 16,
      audio_format |-> 1,
      num_channels |-> num_channels,
      sample_rate |-> rate,
      bits_per_sample |-> bits_per_sample,
      byte_rate |-> CDiv(Mul16(rate * num_channels), 8),
      block_align |-> (num_channels * bits_per_sample) \div 8,
      subchunk2_size |-> pcm_data_size,
      chunk_size |-> HeaderChunkSize(pcm_data_size)]

\* The four characters strncpy puts into a tag field.
TagBytes(tag) ==
  CASE tag = "RIFF" -> <<82, 73, 70, 70>>
    [] tag = "WAVE" -> <<87, 65, 86, 69>>
    [] tag = "fmt " -> <<102, 109, 116, 32>>
    [] tag = "data" -> <<100, 97, 116, 97>>
    [] OTHER -> <<0, 0, 0, 0>>

\* Mutant: the 32-bit fields are stored most significant byte first.
Int32Bytes_BigEndian(v) ==
  LET low == IF v >= 0 THEN v ELSE (v + MaxInt32) + 1
      top == IF v >= 0 THEN 0 ELSE 128
  IN <<(low \div 16777216) + top, (low \div 65536) % 256, (low \div 256) % 256,
       low % 256>>

\* The object representation of an int32_t field (wasm is little-endian,
\* two's complement).
Int32Bytes(v) ==
  LET low == IF v >= 0 THEN v ELSE (v + MaxInt32) + 1
      top == IF v >= 0 THEN 0 ELSE 128
  IN <<low % 256, (low \div 256) % 256, (low \div 65536) % 256,
       (low \div 16777216) + top>>

\* The object representation of an int16_t field.
Int16Bytes(v) ==
  LET low == IF v >= 0 THEN v ELSE v + 65536
  IN <<low % 256, low \div 256>>

\* Line 55: fwrite(&header, 1, sizeof(WavHeader), file) writes the fields in
\* the order of the struct of lines 19-33.
HeaderBytes(h) ==
  TagBytes(h.chunk_id) \o Int32Bytes(h.chunk_size) \o TagBytes(h.format)
    \o TagBytes(h.subchunk1_id) \o Int32Bytes(h.subchunk1_size)
    \o Int16Bytes(h.audio_format) \o Int16Bytes(h.num_channels)
    \o Int32Bytes(h.sample_rate) \o Int32Bytes(h.byte_rate)
    \o Int16Bytes(h.block_align) \o Int16Bytes(h.bits_per_sample)
    \o TagBytes(h.subchunk2_id) \o Int32Bytes(h.subchunk2_size)

NullStream == [open |-> FALSE, len |-> SizeT(0), data |-> <<>>]
NoWav ==
  [null |-> TRUE, header |-> NoHeader, bytes |-> <<>>, data |-> <<>>,
   held_in |-> "none", copied |-> 0]
NoPrev == [valid |-> FALSE, data |-> <<>>, size |-> 0, chunk |-> 0, pcm |-> <<>>]

\* ------------------------------------------------------------------ Init
\* The lengths the caller may pass with a file: all of it, or (the only cut
\* that is not itself a shorter file followed by a lone page header) all
\* but the last byte of its last page.
InputSizes(lay, cut) ==
  {Len(BytesOf(lay))} \cup
    (IF cut /\ lay # <<>> /\ ~lay[Len(lay)].junk THEN {Len(BytesOf(lay)) - 1} ELSE {})

\* The locals of a call that has not started.
InitLocals ==
  /\ bytes_read = 0
  /\ bytes_to_copy = 0
  /\ oy = SyncInit
  /\ og = NoPage
  /\ os = NoStream
  /\ op = NoPacket
  /\ stream_init = 0
  /\ frame_size = 0
  /\ pcm_stream = NullStream
  /\ pcm_buffer = <<>>
  /\ wav_buffer = NoWav
  /\ final_wav_size = SizeT(0)
  /\ wav_size = 0
  /\ ret = "none"
  /\ allocs = [r \in Resources |-> 0]
  /\ frees = [r \in Resources |-> 0]
  /\ n_ok = 0
  /\ yielded = <<>>
  /\ submitted = <<>>
  /\ pages_out = <<>>
  /\ pages_in = <<>>
  /\ supplied = <<>>
  /\ oom_hit = FALSE
  /\ used_failed = FALSE
  /\ call_no = 1
  /\ prev = NoPrev

\* Before the call: the caller holds an input and the chunk size is fixed.
InitWith(lays, sites, cut) ==
  /\ layout \in lays
  /\ ogg_spx_data = BytesOf(layout)
  /\ ogg_spx_size \in InputSizes(layout, cut)
  /\ buffer_size \in 1..MaxChunk
  /\ pc = "start"
  /\ pcm_buffer_size = SizeT(0)
  /\ sample_rate = 0
  /\ oom_at \in sites
  /\ InitLocals

Init == InitWith(Layouts(MaxUnits), {"none"}, TRUE)


\* --------------------------------------------------- decode_spx_to_wav
\* Lines 60-86: decoder, bit reader, sync state and PCM memstream are set up.
decode_init ==
  /\ pc = "start"
  /\ \E fail \in MayFail("pcm_open") :
       /\ pcm_stream' = IF fail THEN NullStream
                        ELSE [open |-> TRUE, len |-> SizeT(0), data |-> <<>>]
       /\ allocs' = IF fail THEN AllocAll(allocs, <<"decoder_state", "bits", "oy">>)
                    ELSE AllocAll(allocs, <<"decoder_state", "bits", "oy",
                                            "pcm_stream", "pcm_buffer">>)
       /\ oom_hit' = fail
  /\ frame_size' = WbFrameSize
  /\ oy' = SyncInit
  /\ pcm_buffer' = <<>>
  /\ pcm_buffer_size' = SizeT(0)
  /\ stream_init' = 0
  /\ bytes_read' = 0
  /\ pc' = "feed"
  /\ UNCHANGED <<inputVars, bytes_to_copy, og, os, op, n_ok, outVars, frees,
                 ghostVars, oom_at, used_failed, callerVars>>

\* Mutant: a final chunk shorter than the buffer is not copied.
BytesToCopy_DropsTail(size, read, bufsz) ==
  IF size - read < bufsz THEN 0 ELSE bufsz

\* Line 94: the number of bytes of the next chunk.
BytesToCopy(size, read, bufsz) ==
  IF size - read < bufsz THEN size - read ELSE bufsz

\* Mutant: the read position is advanced by one byte more than was copied.
Advance_SkipsByte(read, n) == IF n > 0 THEN read + n + 1 ELSE read

\* Lines 95-98: the read position moves by the bytes copied, if any.
Advance(read, n) == IF n > 0 THEN read + n ELSE read

\* Lines 90-99: one chunk is copied into the sync buffer and reported.
feed ==
  /\ pc = "feed"
  /\ LET n == BytesToCopy(ogg_spx_size, bytes_read, buffer_size)
     IN /\ bytes_to_copy' = n
        /\ bytes_read' = Advance(bytes_read, n)
        /\ supplied' = IF n > 0 THEN supplied \o SubSeq(ogg_spx_data, bytes_read + 1,
                                                          bytes_read + n)
                       ELSE supplied
        /\ \E fail \in MayFail("sync_buffer") :
             \E trap \in MayTrap(fail /\ n > 0) :
               /\ oom_hit' = IF fail THEN TRUE ELSE oom_hit
               /\ used_failed' = IF fail /\ n > 0 THEN TRUE ELSE used_failed
               \* a failed ogg_sync_buffer clears the sync state and returns
               \* NULL; ogg_sync_wrote then refuses the bytes
               /\ oy' = IF fail THEN SyncInit
                        ELSE IF n > 0 THEN ogg_sync_wrote(oy, ogg_spx_data, bytes_read, n)
                        ELSE oy
               /\ pc' = IF trap THEN "trapped"
                        ELSE IF n = 0 THEN "probe" ELSE "pageout"
  /\ UNCHANGED <<inputVars, og, os, op, stream_init, frame_size, pcmVars, outVars,
                 allocs, frees, yielded, submitted, pages_out, pages_in, oom_at,
                 callerVars>>

\* Mutant: the end-of-input test does not look at the page extraction.
EndOfInput_IgnoresPage(n, pageout_ret) == n = 0

\* Mutant: the end-of-input test can never succeed.
EndOfInput_Never(n, pageout_ret) == n < 0 /\ pageout_ret # 1

\* Line 102: the condition of the break.
EndOfInput(n, pageout_ret) == n = 0 /\ pageout_ret # 1

\* Line 102, reached with bytes_to_copy = 0: the end-of-input test calls
\* ogg_sync_pageout itself; a page it returns is left in og.
probe ==
  /\ pc = "probe"
  /\ LET r == ogg_sync_pageout(oy)
     IN /\ oy' = r.oy
        /\ og' = IF r.ret = 1 THEN PageOf(layout, r.page) ELSE og
        /\ pages_out' = IF r.ret = 1 THEN Append(pages_out, r.page) ELSE pages_out
        /\ pc' = IF EndOfInput(bytes_to_copy, r.ret) THEN "finalize" ELSE "pageout"
  /\ UNCHANGED <<inputVars, bytes_read, bytes_to_copy, os, op, stream_init,
                 frame_size, pcmVars, outVars, allocs, frees, yielded, submitted,
                 pages_in, supplied, oom_at, oom_hit, used_failed, callerVars>>

\* Line 107: the test of the page loop; it overwrites og.
pageout ==
  /\ pc = "pageout"
  /\ LET r == ogg_sync_pageout(oy)
     IN /\ oy' = r.oy
        /\ og' = IF r.ret = 1 THEN PageOf(layout, r.page) ELSE og
        /\ pages_out' = IF r.ret = 1 THEN Append(pages_out, r.page) ELSE pages_out
        /\ pc' = IF r.ret = 1 THEN "pagein" ELSE "feed"
  /\ UNCHANGED <<inputVars, bytes_read, bytes_to_copy, os, op, stream_init,
                 frame_size, pcmVars, outVars, allocs, frees, yielded, submitted,
                 pages_in, supplied, oom_at, oom_hit, used_failed, callerVars>>

\* Lines 108-114: the stream is initialized on the first page; the page is
\* submitted to it.
pagein ==
  /\ pc = "pagein"
  /\ LET s0 == IF stream_init = 0 THEN ogg_stream_init(og.serialno) ELSE os
     IN os' = ogg_stream_pagein(s0, og)
  /\ allocs' = IF stream_init = 0 THEN Alloc(allocs, "os") ELSE allocs
  /\ stream_init' = 1
  /\ pages_in' = Append(pages_in, og.u)
  /\ pc' = "packetout"
  /\ UNCHANGED <<inputVars, bytes_read, bytes_to_copy, oy, og, op, frame_size,
                 pcmVars, outVars, frees, yielded, submitted, pages_out, supplied,
                 oom_at, oom_hit, used_failed, callerVars>>

\* Mutant: the decoder is handed the packet structure as it was before.
NextOp_Stale(r, cur) == cur

\* Line 117: ogg_stream_packetout fills op when it returns 1.
NextOp(r, cur) == IF r.ret = 1 THEN r.op ELSE cur

\* Line 117: the test of the packet loop.
packetout ==
  /\ pc = "packetout"
  /\ LET r == ogg_stream_packetout(os)
     IN /\ os' = r.os
        /\ op' = NextOp(r, op)
        /\ yielded' = IF r.ret = 1 THEN Append(yielded, r.op.id) ELSE yielded
        /\ pc' = IF r.ret = 1 THEN "decode" ELSE "pageout"
  /\ UNCHANGED <<inputVars, bytes_read, bytes_to_copy, oy, og, stream_init,
                 frame_size, pcmVars, outVars, allocs, frees, submitted, pages_out,
                 pages_in, supplied, oom_at, oom_hit, used_failed, callerVars>>

\* Mutant: every frame is written at the start of the memstream.
AppendFrame_Rewinds(stream, frame, fsize) ==
  [stream EXCEPT !.len = SizeT(2 * fsize), !.data = <<frame>>]

\* Mutant: the element size sizeof(short) is forgotten.
AppendFrame_NoSampleWidth(stream, frame, fsize) ==
  [stream EXCEPT !.len = SizeAdd(@, fsize), !.data = Append(@, frame)]

\* Line 123: fwrite(output_frame, sizeof(short), frame_size, pcm_stream).
AppendFrame(stream, frame, fsize) ==
  [stream EXCEPT !.len = SizeAdd(@, 2 * fsize), !.data = Append(@, frame)]

\* Mutant: the frame is written whatever the decode returned.
AccumulateFrame_Always(stream, rc, frame, fsize) == AppendFrame(stream, frame, fsize)

\* Lines 122-124: the frame is written only when the decode returned 0.
AccumulateFrame(stream, rc, frame, fsize) ==
  IF rc = 0 THEN AppendFrame(stream, frame, fsize) ELSE stream

\* Lines 121 and 125: the frame buffer is allocated and freed for every packet.
FrameAllocs(a, rc) == Alloc(a, "output_frame")
FrameFrees(f, rc) == Free(f, "output_frame")

GarbageFrame == <<0, 0>>

\* Mutant: a failed decode ends the loop.
AfterDecode_Abort(rc) == IF rc = 0 THEN "packetout" ELSE "finalize"

\* Line 126: the packet loop goes on whatever speex_decode_int returned.
AfterDecode(rc) == "packetout"

\* Lines 119-125: one packet is decoded into a fresh frame buffer.
decode ==
  /\ pc = "decode"
  /\ LET rc == speex_decode_int(op)
     IN \E nomem \in MayFail("frame") :
        \E nogrow \in MayFail("pcm_grow") :
        \E trap \in MayTrap(nomem \/ (rc = 0 /\ ~pcm_stream.open)) :
          /\ nomem => ~nogrow
          /\ oom_hit' = IF nomem \/ (nogrow /\ rc = 0) THEN TRUE ELSE oom_hit
          /\ used_failed' = IF nomem \/ (rc = 0 /\ ~pcm_stream.open) THEN TRUE
                            ELSE used_failed
          /\ n_ok' = IF rc = 0 THEN n_ok + 1 ELSE n_ok
          /\ pcm_stream' =
               IF ~pcm_stream.open \/ (nogrow /\ rc = 0) THEN pcm_stream
               ELSE AccumulateFrame(pcm_stream, rc,
                                    IF nomem THEN GarbageFrame ELSE op.id, frame_size)
          /\ allocs' = IF nomem THEN allocs ELSE FrameAllocs(allocs, rc)
          /\ frees' = IF nomem THEN frees ELSE FrameFrees(frees, rc)
          /\ pc' = IF trap THEN "trapped" ELSE AfterDecode(rc)
  /\ submitted' = Append(submitted, op.id)
  /\ UNCHANGED <<inputVars, bytes_read, bytes_to_copy, demuxVars, frame_size,
                 pcm_buffer, pcm_buffer_size, outVars, yielded, pages_out, pages_in,
                 supplied, oom_at, callerVars>>


\* Line 130: fclose(pcm_stream) publishes the buffer and its length.
finalize ==
  /\ pc = "finalize"
  /\ \E trap \in MayTrap(~pcm_stream.open) :
       /\ used_failed' = IF ~pcm_stream.open THEN TRUE ELSE used_failed
       /\ pc' = IF trap THEN "trapped" ELSE "synthesize"
  /\ pcm_buffer' = IF pcm_stream.open THEN pcm_stream.data ELSE pcm_buffer
  /\ pcm_buffer_size' = IF pcm_stream.open THEN pcm_stream.len ELSE pcm_buffer_size
  /\ pcm_stream' = [pcm_stream EXCEPT !.open = FALSE]
  /\ frees' = IF pcm_stream.open THEN Free(frees, "pcm_stream") ELSE frees
  /\ UNCHANGED <<inputVars, bytes_read, bytes_to_copy, demuxVars, frame_size, n_ok,
                 outVars, allocs, ghostVars, oom_at, oom_hit, callerVars>>

\* Line 140: fwrite(pcm_buffer, 1, pcm_buffer_size, wav_stream) puts the
\* payload into the buffer of the output memstream.
PayloadHolder == "wav_buffer"

\* Lines 139-140: what the output memstream holds after the header and the
\* payload were written (held_in: the allocation the payload is in; copied:
\* the frames line 140 copied out of pcm_buffer).
WavContents(rate, size, pcm) ==
  LET header == write_wav_header(rate, SizeToInt32(size))
  IN [null |-> FALSE, header |-> header, bytes |-> HeaderBytes(header), data |-> pcm,
      held_in |-> PayloadHolder, copied |-> Len(pcm)]

\* Mutant: the header is not counted in the reported length.
FinalWavSize_PayloadOnly(size) == size

\* The length of the output memstream at its fclose.
FinalWavSize(size) == SizeAdd(size, SizeofWavHeader)

\* Lines 133-141: the output memstream is opened, the decoder's sampling
\* rate is queried, header and payload are written, the stream is closed.
synthesize ==
  /\ pc = "synthesize"
  /\ \E rate \in SampleRates :
     \E noopen \in MayFail("wav_open") :
     \E nogrow \in MayFail("wav_grow") :
     \E trap \in MayTrap(noopen) :
       /\ nogrow => (~noopen /\ pcm_buffer # <<>>)
       /\ sample_rate' = rate
       /\ oom_hit' = IF noopen \/ nogrow THEN TRUE ELSE oom_hit
       /\ used_failed' = IF noopen THEN TRUE ELSE used_failed
       /\ wav_buffer' =
            IF noopen THEN NoWav
            ELSE IF nogrow THEN WavContents(rate, pcm_buffer_size, <<>>)
            ELSE WavContents(rate, pcm_buffer_size, pcm_buffer)
       /\ final_wav_size' =
            IF noopen THEN SizeT(0)
            ELSE IF nogrow THEN SizeT(SizeofWavHeader)
            ELSE FinalWavSize(pcm_buffer_size)
       /\ allocs' = IF noopen THEN allocs
                    ELSE AllocAll(allocs, <<"wav_stream", "wav_buffer">>)
       /\ frees' = IF noopen THEN frees ELSE Free(frees, "wav_stream")
       /\ pc' = IF trap THEN "trapped" ELSE "cleanup"
  /\ UNCHANGED <<inputVars, bytes_read, bytes_to_copy, demuxVars, frame_size,
                 pcmVars, wav_size, ret, ghostVars, oom_at, callerVars>>

\* Mutant: ogg_stream_clear is called whether or not the stream was initialized.
CleanupFrees_AlwaysClear(f, a, sinit) ==
  LET f1 == IF a["pcm_buffer"] > 0 THEN Free(f, "pcm_buffer") ELSE f
  IN Free(Free(Free(Free(f1, "os"), "oy"), "decoder_state"), "bits")

\* Lines 144-148: what the call releases before it returns.
CleanupFrees(f, a, sinit) ==
  LET f1 == IF a["pcm_buffer"] > 0 THEN Free(f, "pcm_buffer") ELSE f
      f2 == IF sinit # 0 THEN Free(f1, "os") ELSE f1
  IN Free(Free(Free(f2, "oy"), "decoder_state"), "bits")

\* Lines 143-151: resources are released, the length is stored, the buffer
\* is returned.
cleanup ==
  /\ pc = "cleanup"
  /\ frees' = CleanupFrees(frees, allocs, stream_init)
  /\ wav_size' = SizeToInt32(final_wav_size)
  /\ ret' = IF wav_buffer.null THEN "NULL" ELSE "wav_buffer"
  /\ pc' = "done"
  /\ UNCHANGED <<inputVars, bytes_read, bytes_to_copy, demuxVars, frame_size,
                 pcmVars, sample_rate, wav_buffer, final_wav_size, allocs, ghostVars,
                 oom_at, oom_hit, used_failed, callerVars>>

\* Lines 155-157: the caller releases the returned buffer.
free_wav_buffer ==
  /\ pc = "done"
  /\ frees' = IF ret = "wav_buffer" THEN Free(frees, "wav_buffer") ELSE frees
  /\ pc' = "released"
  /\ UNCHANGED <<inputVars, bytes_read, bytes_to_copy, demuxVars, frame_size,
                 pcmVars, outVars, allocs, ghostVars, oom_at, oom_hit, used_failed,
                 callerVars>>

Next ==
  \/ decode_init
  \/ feed
  \/ probe
  \/ pageout
  \/ pagein
  \/ packetout
  \/ decode
  \/ finalize
  \/ synthesize
  \/ cleanup
  \/ free_wav_buffer

Spec == Init /\ [][Next]_vars


\* ------------------------------------------------- the caller's second call
\* What the caller may ask next of the same buffer: the same bytes with
\* another chunk size, or a truncation of them with the same chunk size.
NextCalls ==
  {[size |-> ogg_spx_size, chunk |-> c] : c \in (1..MaxChunk) \ {buffer_size}}
    \cup {[size |-> n, chunk |-> buffer_size] : n \in 0..(ogg_spx_size - 1)}

call_again ==
  /\ pc = "released"
  /\ call_no = 1
  /\ \E c \in NextCalls :
       /\ ogg_spx_size' = c.size
       /\ buffer_size' = c.chunk
  /\ prev' = [valid |-> TRUE, data |-> ogg_spx_data, size |-> ogg_spx_size,
              chunk |-> buffer_size, pcm |-> wav_buffer.data]
  /\ call_no' = 2
  /\ pc' = "start"
  /\ bytes_read' = 0
  /\ bytes_to_copy' = 0
  /\ oy' = SyncInit
  /\ og' = NoPage
  /\ os' = NoStream
  /\ op' = NoPacket
  /\ stream_init' = 0
  /\ frame_size' = 0
  /\ pcm_stream' = NullStream
  /\ pcm_buffer' = <<>>
  /\ pcm_buffer_size' = SizeT(0)
  /\ sample_rate' = 0
  /\ wav_buffer' = NoWav
  /\ final_wav_size' = SizeT(0)
  /\ wav_size' = 0
  /\ ret' = "none"
  /\ allocs' = [r \in Resources |-> 0]
  /\ frees' = [r \in Resources |-> 0]
  /\ n_ok' = 0
  /\ yielded' = <<>>
  /\ submitted' = <<>>
  /\ pages_out' = <<>>
  /\ pages_in' = <<>>
  /\ supplied' = <<>>
  /\ UNCHANGED <<layout, ogg_spx_data, oom_at, oom_hit, used_failed>>

\* Two calls on one buffer; the first is given all of it.
InitPair == InitWith(Layouts(MaxPairUnits), {"none"}, FALSE)
NextPair == Next \/ call_again
SpecPair == InitPair /\ [][NextPair]_vars

\* One call in which one allocation site may fail.
InitAlloc == InitWith(Layouts(MaxPairUnits), AllocSites, TRUE)
SpecAlloc == InitAlloc /\ [][Next]_vars

\* The scheduler: the call is sequential code, every step it can take it takes.
FairSpec == Spec /\ WF_vars(Next)


\* -------------------------------------------- write_wav_header on its own
\* The accumulator lengths around the largest one a 32-bit signed field
\* holds: whole frames of 2 * WbFrameSize bytes, LastFit frames being the
\* most that stay below 2^31 bytes.
LastFit == MaxInt32 \div (2 * WbFrameSize)

HeaderSizes ==
  {SizeT((LastFit - k) * 2 * WbFrameSize) : k \in 0..HeaderSpan}
    \cup {SizeAdd(SizeT(LastFit * 2 * WbFrameSize), (k + 1) * 2 * WbFrameSize) :
            k \in 0..HeaderSpan}

InitHeader ==
  /\ layout = <<>>
  /\ ogg_spx_data = <<>>
  /\ ogg_spx_size = 0
  /\ buffer_size = MaxChunk
  /\ pc = "write_wav_header"
  /\ pcm_buffer_size \in HeaderSizes
  /\ sample_rate \in SampleRates
  /\ oom_at = "none"
  /\ InitLocals

\* Line 139 alone: write_wav_header(wav_stream, sample_rate, pcm_buffer_size);
\* the payload is left out.
header_only ==
  /\ pc = "write_wav_header"
  /\ wav_buffer' = WavContents(sample_rate, pcm_buffer_size, <<>>)
  /\ pc' = "header_written"
  /\ UNCHANGED <<inputVars, bytes_read, bytes_to_copy, demuxVars, frame_size,
                 pcmVars, sample_rate, final_wav_size, wav_size, ret, allocs, frees,
                 ghostVars, oom_at, oom_hit, used_failed, callerVars>>

SpecHeader == InitHeader /\ [][header_only]_vars


\* ================================================================ claims
Returned == pc \in {"done", "released"}

\* C1: a call in which no packet decodes successfully (empty input, or every
\* decode failed) returns exactly the 44 header bytes, with data-subchunk
\* size 0 and overall size 36.
C1_HeaderOnlyWhenNothingDecodes ==
  (Returned /\ n_ok = 0) =>
    /\ ret = "wav_buffer"
    /\ wav_size = 44
    /\ final_wav_size = SizeT(44)
    /\ wav_buffer.data = <<>>
    /\ wav_buffer.header.subchunk2_size = 0
    /\ wav_buffer.header.chunk_size = 36

\* C1 witness: a call returned after every one of its packets failed to decode.
C1_Witness == pc = "done" /\ n_ok = 0 /\ Len(submitted) >= 2

\* C2: in every state the accumulator holds (successful decodes) x
\* frame_size x 2 bytes, the published length is that number once the
\* stream is closed, and frame_size, once queried, never changes.
C2_Inv ==
  /\ pc # "start" => frame_size > 0
  /\ pcm_stream.len = SizeT(n_ok * frame_size * 2)
  /\ pc # "start" => pcm_stream.len.lo % (frame_size * 2) = 0
  /\ pc \in {"synthesize", "cleanup", "done", "released"} =>
       pcm_buffer_size = SizeT(n_ok * frame_size * 2)

C2_PcmLengthIsFrames ==
  /\ []C2_Inv
  /\ [][pc # "start" => frame_size' = frame_size]_vars

\* C2 witness: both a failed and a successful decode have happened.
C2_Witness ==
  /\ pc = "packetout"
  /\ n_ok >= 1
  /\ Len(submitted) > n_ok
  /\ pcm_stream.len = SizeT(n_ok * 640)


\* C3: for every produced header, whatever the accumulated PCM length and
\* the reported sample rate, the fields hold the exact values: the
\* data-subchunk size is the PCM byte length, the overall size is 36 more,
\* the byte rate is twice the sample rate (nothing wrapped or truncated).
C3_HeaderArithmeticExact ==
  pc = "header_written" =>
    LET h == wav_buffer.header
    IN /\ pcm_buffer_size.hi = 0
       /\ h.subchunk2_size = pcm_buffer_size.lo
       /\ h.chunk_size - 36 = h.subchunk2_size
       /\ h.byte_rate = h.sample_rate * 2


IsPrefix(a, b) == Len(a) <= Len(b) /\ a = SubSeq(b, 1, Len(a))

\* Whether the packet with this id is one speex decodes.
Decodable(id) == layout[id[1]].segs[id[2]] = "good"

AfterLoop == pc \in {"finalize", "synthesize", "cleanup", "done", "released"}

\* C5: packets go to the decoder in the order the demultiplexer yields
\* them, each exactly once, and the frames of the successful decodes are
\* in the accumulator in that order.
C5_PacketOrder ==
  /\ IsPrefix(submitted, yielded)
  /\ Len(yielded) - Len(submitted) = (IF pc = "decode" THEN 1 ELSE 0)
  /\ pc = "decode" => op.id = yielded[Len(yielded)]
  /\ \A i, j \in 1..Len(yielded) : i # j => yielded[i] # yielded[j]
  /\ pcm_stream.data = SelectSeq(submitted, Decodable)
  /\ AfterLoop => submitted = yielded

\* C5 witness: three packets went through, a failed one between two good ones.
C5_Witness ==
  /\ pc = "done"
  /\ Len(submitted) = 3
  /\ Len(pcm_buffer) = 2
  /\ ~Decodable(submitted[2])

Phase(p) ==
  CASE p = "start" -> "Init"
    [] p = "feed" -> "Feeding"
    [] p \in {"probe", "pageout", "pagein", "packetout", "decode"} -> "Draining"
    [] p \in {"finalize", "synthesize", "cleanup"} -> "Finalizing"
    [] p \in {"done", "released"} -> "Done"
    [] OTHER -> "Error"

PhaseSteps ==
  {<<"Init", "Feeding">>, <<"Feeding", "Draining">>, <<"Draining", "Draining">>,
   <<"Draining", "Feeding">>, <<"Draining", "Finalizing">>,
   <<"Finalizing", "Finalizing">>, <<"Finalizing", "Done">>, <<"Done", "Done">>}

PhaseStep == <<Phase(pc), Phase(pc')>> \in PhaseSteps

\* C6: every call moves Init -> Feeding <-> Draining -> Finalizing -> Done,
\* has no error state, and reaches Done (the loop terminates), whatever the
\* demultiplexer and the decoder answer.
C6_ReachesDone ==
  /\ <>(pc = "done")
  /\ [](Phase(pc) # "Error")
  /\ [][PhaseStep]_vars

\* C6 witness: a call is done although every packet failed to decode, after
\* the demultiplexer lost sync once.
C6_Witness ==
  /\ pc = "done"
  /\ Len(submitted) >= 1
  /\ n_ok = 0
  /\ oy.unsynced

\* C9: a failed decode leaves the accumulator as it was and the loop goes
\* on as after a successful one (same place, demultiplexer state untouched);
\* the caller gets a buffer and no error, and every packet yielded, before
\* or after a failure, was submitted.
C9_Step ==
  pc = "decode" =>
    /\ pc' = "packetout"
    /\ UNCHANGED <<demuxVars, bytes_read, bytes_to_copy, yielded, pages_out, pages_in>>
    /\ speex_decode_int(op) # 0 =>
         UNCHANGED <<pcm_stream, pcm_buffer, pcm_buffer_size, n_ok, ret, wav_size>>

C9_FailedDecodeIsSkipped ==
  /\ [][C9_Step]_vars
  /\ [](Returned => (ret = "wav_buffer" /\ submitted = yielded
                      /\ wav_buffer.data = SelectSeq(yielded, Decodable)))

\* C9 witness: a packet was decoded successfully after an earlier one failed.
C9_Witness ==
  /\ pc = "done"
  /\ Len(submitted) >= 2
  /\ ~Decodable(submitted[1])
  /\ Decodable(submitted[2])
  /\ wav_buffer.data = <<submitted[2]>>

Live(r) == allocs[r] > frees[r]

\* C10: nothing is ever released more often than it was allocated; at the
\* return only the output buffer is live and every other allocation of the
\* call (one frame buffer per packet, the stream state only if it was
\* initialized) has been released exactly once; after free_wav_buffer
\* nothing is live.
C10_Ownership ==
  /\ \A r \in Resources : frees[r] <= allocs[r]
  /\ allocs["output_frame"] = Len(submitted)
  /\ allocs["os"] = stream_init
  /\ \A r \in Resources \ {"output_frame"} : allocs[r] <= 1
  /\ pc \in {"feed", "probe", "pageout", "pagein", "packetout", "decode"} =>
       /\ ~Live("output_frame")
       /\ \A r \in {"decoder_state", "bits", "oy", "pcm_stream", "pcm_buffer"} : Live(r)
  /\ pc = "done" =>
       /\ ret = "wav_buffer"
       /\ \A r \in Resources : Live(r) <=> r = "wav_buffer"
       /\ \A r \in Resources \ {"os", "output_frame"} : allocs[r] = 1
  /\ pc = "released" => \A r \in Resources : ~Live(r) /\ frees[r] = allocs[r]

\* C10 witness: the buffer of a call that never saw a page (stream state
\* never initialized) but was not empty has been released by the caller.
C10_Witness ==
  /\ pc = "released"
  /\ stream_init = 0
  /\ ogg_spx_size > 0
  /\ frees["wav_buffer"] = 1


\* C4: the same input bytes fed with two different chunk sizes give the
\* same PCM output, whatever the demultiplexer reports on the way (page,
\* need more data, or loss of sync).
C4_ChunkingInvisible ==
  (pc = "done" /\ call_no = 2 /\ prev.valid /\ ogg_spx_size = prev.size) =>
    wav_buffer.data = prev.pcm


\* An input the entry point's precondition admits: one logical stream, no
\* corrupt page.
ValidInput == \A u \in 1..Len(layout) : ~layout[u].junk /\ layout[u].serialno = 1

\* The frames of the decodable packets that end in pages 1..n, in order.
RECURSIVE FramesWithin(_, _)
FramesWithin(lay, n) ==
  IF n = 0 THEN <<>>
  ELSE FramesWithin(lay, n - 1) \o
         SelectSeq([k \in 1..Len(lay[n].segs) |-> <<n, k>>], Decodable)

C8_AllocFailureReported ==
  /\ ~used_failed
  /\ (oom_hit /\ Returned) => ret = "NULL"


ReadInt16(b, off) ==
  LET x == b[off + 1] + 256 * b[off + 2]
  IN IF x >= 32768 THEN x - 65536 ELSE x

ReadInt32(b, off) ==
  LET x == b[off + 1] + 256 * b[off + 2] + 65536 * b[off + 3]
             + 16777216 * (b[off + 4] % 128)
  IN IF b[off + 4] >= 128 THEN (x - MaxInt32) - 1 ELSE x

ParseHeader(b) ==
  [chunk_id |-> SubSeq(b, 1, 4),
   chunk_size |-> ReadInt32(b, 4),
   format |-> SubSeq(b, 9, 12),
   subchunk1_id |-> SubSeq(b, 13, 16),
   subchunk1_size |-> ReadInt32(b, 16),
   audio_format |-> ReadInt16(b, 20),
   num_channels |-> ReadInt16(b, 22),
   sample_rate |-> ReadInt32(b, 24),
   byte_rate |-> ReadInt32(b, 28),
   block_align |-> ReadInt16(b, 32),
   bits_per_sample |-> ReadInt16(b, 34),
   subchunk2_id |-> SubSeq(b, 37, 40),
   subchunk2_size |-> ReadInt32(b, 40)]

\* C12: when exactly one packet decoded, reading the 44 header bytes back
\* gives the sample rate the decoder reported after the loop, 1 channel,
\* 16 bits per sample, block alignment 2, audio format 1, format-subchunk
\* size 16 and a data-subchunk size of one frame (frame_size x 2); at a
\* reported rate of 16000 the byte rate read back is 32000.
C12_SinglePacketHeaderRoundTrip ==
  (Returned /\ n_ok = 1) =>
    /\ Len(wav_buffer.bytes) = 44
    /\ LET h == ParseHeader(wav_buffer.bytes)
       IN /\ h.sample_rate = sample_rate
          /\ h.num_channels = 1
          /\ h.bits_per_sample = 16
          /\ h.block_align = 2
          /\ h.audio_format = 1
          /\ h.subchunk1_size = 16
          /\ h.subchunk2_size = frame_size * 2
          /\ h.chunk_size = 36 + frame_size * 2
          /\ sample_rate = 16000 => h.byte_rate = 32000

\* C12 witness: one page with one decodable packet was decoded and the
\* decoder reported 16000.
C12_Witness ==
  /\ pc = "done"
  /\ n_ok = 1
  /\ layout = <<PageUnit(1, <<"good">>)>>
  /\ ogg_spx_size = PageLen
  /\ sample_rate = 16000
  /\ ReadInt32(wav_buffer.bytes, 28) = 32000


\* C13: every page ogg_sync_pageout returns, from the page loop or from the
\* end-of-input test, is handed to ogg_stream_pagein exactly once, in
\* extraction order, before the next extraction is attempted; none is
\* overwritten or dropped.
C13_EveryPageFedOnce ==
  /\ IsPrefix(pages_in, pages_out)
  /\ pc = "pagein" => pages_out = Append(pages_in, og.u)
  /\ pc # "pagein" => pages_in = pages_out


\* Whether ogg_sync_pageout, called again and again without new bytes,
\* would still return a page from what the sync buffer holds.
RECURSIVE Extractable(_)
Extractable(s) ==
  LET r == ogg_sync_pageout(s)
  IN r.ret = 1 \/ (r.ret = -1 /\ Extractable(r.oy))

\* Whether the stream holds a complete packet that was not yet returned.
PacketPending(s) == \E i \in 1..Len(s.lacing) : ~s.lacing[i].gap

\* C14: whenever the loop asks for more input bytes, nothing is left to
\* drain: no page is extractable from the bytes already buffered and no
\* complete packet is pending in the stream, whatever the page and packet
\* extraction answered before (a page, need more data, or a hole).
C14_DrainedBeforeFeed ==
  pc = "feed" => (~Extractable(oy) /\ ~PacketPending(os))


InLoop == pc \in {"feed", "probe", "pageout", "pagein", "packetout", "decode"}

\* What holds once the main loop has been left.
C15_AtExit ==
  AfterLoop =>
    /\ bytes_to_copy = 0
    /\ bytes_read = ogg_spx_size
    /\ supplied = SubSeq(ogg_spx_data, 1, ogg_spx_size)
    /\ ~Extractable(oy)

\* The loop is left only from the end-of-input test, and there exactly when
\* nothing was copied and no page is extractable.
C15_ExitStep ==
  /\ (InLoop /\ pc # "probe") => pc' # "finalize"
  /\ pc = "probe" => (pc' = "finalize" <=> (bytes_to_copy = 0 /\ ~Extractable(oy)))

\* C15: the main loop exits exactly when no input bytes remain to copy and
\* no page is extractable from the buffered bytes; at the exit bytes_read
\* equals the input length, every input byte was supplied to the
\* demultiplexer and no complete page is left in the sync buffer.
C15_LoopExit == []C15_AtExit /\ [][C15_ExitStep]_vars

\* C15 witness: the loop was left after an end-of-input test that had found
\* a page still extractable on an earlier iteration.
C15_Witness ==
  /\ pc = "finalize"
  /\ ogg_spx_size > 0
  /\ bytes_read = ogg_spx_size
  /\ Len(pages_out) > Len(pages_in)


\* The slice of the input that a chunk of n bytes read at position `from` is.
Slice(from, n) == SubSeq(ogg_spx_data, from + 1, from + n)

C16_Inv ==
  /\ 0 <= bytes_read
  /\ bytes_read <= ogg_spx_size
  /\ 0 <= bytes_to_copy
  /\ bytes_to_copy <= buffer_size
  /\ supplied = Slice(0, bytes_read)

C16_Step ==
  /\ bytes_read' >= bytes_read
  /\ UNCHANGED <<ogg_spx_data, ogg_spx_size>>
  /\ pc = "feed" =>
       /\ bytes_to_copy' \in 0..buffer_size
       /\ bytes_read + bytes_to_copy' <= ogg_spx_size
       /\ bytes_read' = bytes_read + bytes_to_copy'
       /\ supplied' = supplied \o Slice(bytes_read, bytes_to_copy')
       /\ oy'.data = oy.data \o Slice(bytes_read, bytes_to_copy')
  /\ pc # "feed" => UNCHANGED <<bytes_read, bytes_to_copy, supplied>>

\* C16: the input is delivered as consecutive, non-overlapping slices in
\* input order: bytes_read stays within 0..inputLength and never decreases,
\* each copy takes the slice that starts at bytes_read, of at most one chunk
\* and inside the input, the count reported to the demultiplexer is the
\* number of bytes copied, and the input is never written.
C16_FeederSlices == []C16_Inv /\ [][C16_Step]_vars

\* C16 witness: a last chunk shorter than the chunk size was fed after a
\* full one.
C16_Witness ==
  /\ pc = "pageout"
  /\ bytes_read = ogg_spx_size
  /\ bytes_read > buffer_size
  /\ bytes_to_copy > 0
  /\ bytes_to_copy < buffer_size


C17_Inv ==
  /\ stream_init \in {0, 1}
  /\ stream_init = 0 => (pages_in = <<>> /\ yielded = <<>> /\ os = NoStream)
  /\ (pages_out # <<>> /\ pc # "pagein") => stream_init = 1
  /\ stream_init = 1 => (/\ pages_out # <<>>
                         /\ os.serialno = layout[pages_out[1]].serialno)
  /\ allocs["os"] = stream_init
  /\ Returned => frees["os"] = stream_init

C17_Step ==
  /\ stream_init' >= stream_init
  /\ stream_init' # stream_init => (pc = "pagein" /\ Len(pages_out) = 1)
  /\ stream_init = 1 => os'.serialno = os.serialno
  /\ pc = "pagein" => pages_in' = Append(pages_in, og.u)

\* C17: the logical stream is initialized at most once, when the first page
\* is extracted and with that page's serial number; stream_init only goes
\* from 0 to 1; nothing is fed or pulled before; the bound serial number
\* never changes while every later page is fed to the same stream; and the
\* stream state is cleared at the end exactly if it was initialized.
C17_StreamInitOnce == []C17_Inv /\ [][C17_Step]_vars


SizeLeq(a, b) == a.hi < b.hi \/ (a.hi = b.hi /\ a.lo <= b.lo)

C18_Step ==
  /\ SizeLeq(pcm_stream.len, pcm_stream'.len)
  /\ IsPrefix(pcm_stream.data, pcm_stream'.data)
  /\ AfterLoop => (/\ pcm_stream'.len = pcm_stream.len
                   /\ pcm_stream'.data = pcm_stream.data)
  /\ pc \in {"synthesize", "cleanup", "done"} => UNCHANGED <<pcm_buffer, pcm_buffer_size>>

C18_Frozen ==
  /\ pc \in {"synthesize", "cleanup", "done", "released"} =>
       (pcm_buffer = pcm_stream.data /\ pcm_buffer_size = pcm_stream.len)
  /\ pc \in {"cleanup", "done", "released"} =>
       /\ wav_buffer.header.subchunk2_size = SizeToInt32(pcm_stream.len)
       /\ wav_buffer.data = pcm_stream.data
       /\ wav_buffer.copied = Len(pcm_stream.data)

\* C18: the accumulator is append-only: over every step its length never
\* decreases and what it held stays a prefix of what it holds; after the
\* loop nothing is appended, and the length written to the header and used
\* for the payload copy is the length at the end of the loop.
C18_AppendOnly == [][C18_Step]_vars /\ []C18_Frozen

\* C18 witness: three frames were appended one after the other, with a
\* failed decode among the packets, and the length is frozen.
C18_Witness ==
  /\ pc = "synthesize"
  /\ Len(pcm_buffer) = 3
  /\ Len(submitted) = 4
  /\ pcm_buffer_size = SizeT(3 * 640)


\* C19: the accumulator's buffer is handed to the output without a copy: the
\* PCM bytes of the returned buffer are in the allocation that accumulated
\* them, which is therefore still live, and no payload byte was copied
\* between the end of the loop and the return.
C19_PayloadMoved ==
  (Returned /\ n_ok > 0) =>
    /\ wav_buffer.held_in = "pcm_buffer"
    /\ wav_buffer.copied = 0
    /\ frees["pcm_buffer"] = 0

=============================================================================
